---- MODULE Spec2Model ----
(***************************************************************************)
(* Model of omen_linux: HpWmiInterface (hp_wmi.py) and FanController       *)
(* (fan_control.py) over a small sysfs tree.                               *)
(*                                                                         *)
(* A file's text is a sequence of lexemes: a lexeme is either a whitespace *)
(* character or a run of non-blank text that never contains whitespace.    *)
(* str.strip(), str.split() and int() are computed on that sequence.       *)
(*                                                                         *)
(* Whether an open() succeeds is a property of the file (its access mode   *)
(* for this process), fixed for a behaviour: every try/except branch of    *)
(* the code is taken in some tree, and two consecutive calls see the same  *)
(* permissions.  A write stores the text exactly as the code writes it.    *)
(***************************************************************************)
EXTENDS Integers, Sequences, FiniteSets, TLC

\* Python's None for optional strings and enum values.
None == "None"

\* ------------------------------------------------------------------------
\* Bounds
\* ------------------------------------------------------------------------

\* How many writes by other processes (another instance, a daemon) a
\* behaviour may contain.
MaxExternalWrites == 1

\* How many directories /sys/class/hwmon holds at most in the discovery and
\* fan-speed specification.
MaxClassHwmon == 2

\* How many times the hwmon tree is renumbered or the firmware device removed
\* after construction.
MaxReloads == 1

\* How many directories /sys/class/hwmon holds at most in the temperature
\* specification.
MaxHwmonDirs == 2

\* ------------------------------------------------------------------------
\* Text helpers: str.strip(), str.split(), str.lower(), int()
\* ------------------------------------------------------------------------

IsSpace(c) == c \in {" ", "\n", "\t"}

RECURSIVE LStrip(_)
LStrip(s) == IF s = <<>> THEN <<>>
             ELSE IF IsSpace(Head(s)) THEN LStrip(Tail(s)) ELSE s

RECURSIVE RStrip(_)
RStrip(s) == IF s = <<>> THEN <<>>
             ELSE IF IsSpace(s[Len(s)]) THEN RStrip(SubSeq(s, 1, Len(s) - 1)) ELSE s

\* str.strip()
Strip(s) == RStrip(LStrip(s))

\* str.split() with no argument: the maximal runs of non-blank lexemes.
RECURSIVE SplitFrom(_, _, _)
SplitFrom(s, cur, acc) ==
    IF s = <<>> THEN (IF cur = <<>> THEN acc ELSE Append(acc, cur))
    ELSE IF IsSpace(Head(s))
         THEN SplitFrom(Tail(s), <<>>, IF cur = <<>> THEN acc ELSE Append(acc, cur))
         ELSE SplitFrom(Tail(s), Append(cur, Head(s)), acc)

Split(s) == SplitFrom(s, <<>>, <<>>)

\* x in list
InList(x, l) == \E i \in 1..Len(l) : l[i] = x

Digits == {"0", "1", "2", "3", "4", "5", "6", "7", "8", "9"}

DigitVal(c) == CHOOSE v \in 0..9 : <<"0", "1", "2", "3", "4", "5", "6", "7", "8", "9">>[v + 1] = c

RECURSIVE DigitsVal(_, _)
DigitsVal(s, acc) == IF s = <<>> THEN acc
                     ELSE DigitsVal(Tail(s), 10 * acc + DigitVal(Head(s)))

\* int(text): surrounding whitespace is ignored, one optional sign, then at
\* least one digit and nothing else; anything else raises ValueError.
ParseInt(s) ==
    LET t    == Strip(s)
        sgn  == t # <<>> /\ Head(t) \in {"+", "-"}
        body == IF sgn THEN Tail(t) ELSE t
    IN  IF body # <<>> /\ \A i \in 1..Len(body) : body[i] \in Digits
        THEN [ok |-> TRUE,
              value |-> IF sgn /\ Head(t) = "-" THEN 0 - DigitsVal(body, 0)
                        ELSE DigitsVal(body, 0)]
        ELSE [ok |-> FALSE, value |-> 0]

\* ------------------------------------------------------------------------
\* Enumerations
\* ------------------------------------------------------------------------

\* fan_control.FanMode member names
FanModes == {"QUIET", "BALANCED", "PERFORMANCE", "MAX", "OFF"}

\* The FanMode members that name a platform profile.
ProfileModes == {"QUIET", "BALANCED", "PERFORMANCE"}

\* ------------------------------------------------------------------------
\* The sysfs tree
\* ------------------------------------------------------------------------

\* A file: whether it exists, its text, and what this process may do with
\* it ("none": open fails, "ro": reads succeed and writes fail, "rw").
File(e, c, a) == [exists |-> e, content |-> c, access |-> a]

NoFile == File(FALSE, <<>>, "none")

CanRead(file) == file.exists /\ file.access \in {"ro", "rw"}

CanWrite(file) == file.exists /\ file.access = "rw"

\* str.lower() on the letters that occur in hwmon names and sensor labels.
LowerChar(c) ==
    LET lower == [C |-> "c", E |-> "e", G |-> "g", H |-> "h", J |-> "j",
                  P |-> "p", T |-> "t", U |-> "u"]
    IN  IF c \in DOMAIN lower THEN lower[c] ELSE c

Lower(s) == [i \in 1..Len(s) |-> LowerChar(s[i])]

\* sub in s, for character sequences
Contains(sub, s) ==
    \E i \in 0..(Len(s) - Len(sub)) : SubSeq(s, i + 1, i + Len(sub)) = sub

\* ------------------------------------------------------------------------
\* HpWmiInterface
\* ------------------------------------------------------------------------

\* The exception open() raises on a file this process may not read; the
\* fallback scan of _detect_hp_wmi_hwmon has no handler for it.
IOError == "IOError"

\* _detect_hp_wmi_hwmon: the first hwmon directory under hp-wmi, else the
\* first /sys/class/hwmon entry with a name file whose text contains "hp";
\* IOError when the scan opens a name file it may not read.
RECURSIVE ScanClassHwmon(_)
ScanClassHwmon(entries) ==
    IF entries = <<>> THEN None
    ELSE IF ~Head(entries).has_name THEN ScanClassHwmon(Tail(entries))
    ELSE IF Head(entries).name_access = "none" THEN IOError
    ELSE IF Contains(<<"h", "p">>, Lower(Head(entries).name)) THEN Head(entries).dir
    ELSE ScanClassHwmon(Tail(entries))

\* Variant of _detect_hp_wmi_hwmon that looks for the device whether or not
\* the hp-wmi directory exists.
detect_hp_wmi_hwmon_without_root_check(available, f) ==
    IF f.hp_wmi_hwmon # <<>> THEN f.hp_wmi_hwmon[1]
    ELSE ScanClassHwmon(f.class_hwmon)

detect_hp_wmi_hwmon(available, f) ==
    IF ~available THEN None
    ELSE IF f.hp_wmi_hwmon # <<>> THEN f.hp_wmi_hwmon[1]
    ELSE ScanClassHwmon(f.class_hwmon)

\* __init__: the three fields cached for the instance's lifetime.
HpWmiInterface_init(f) ==
    [hp_wmi_available           |-> f.hp_wmi_dir,
     platform_profile_available |-> f.profile.exists,
     hwmon_hp_wmi_path          |-> detect_hp_wmi_hwmon(f.hp_wmi_dir, f)]

\* is_available
is_available(hp) == hp.hp_wmi_available \/ hp.platform_profile_available

\* get_available_profiles: the tokens of platform_profile_choices, or [].
get_available_profiles(f) ==
    IF ~f.choices.exists THEN <<>>
    ELSE IF CanRead(f.choices) THEN Split(Strip(f.choices.content))
    ELSE <<>>

\* Variant of profile_map without the "quiet" spelling.
profile_map_no_quiet(profile) ==
    IF profile = <<"low-power">> THEN "QUIET"
    ELSE IF profile = <<"balanced">> THEN "BALANCED"
    ELSE IF profile = <<"performance">> THEN "PERFORMANCE"
    ELSE "BALANCED"

\* Variant of profile_map without the "performance" entry.
profile_map_no_performance(profile) ==
    IF profile = <<"low-power">> THEN "QUIET"
    ELSE IF profile = <<"quiet">> THEN "QUIET"
    ELSE IF profile = <<"balanced">> THEN "BALANCED"
    ELSE "BALANCED"

\* profile_map.get(profile, PerformanceMode.BALANCED) in get_current_mode
profile_map(profile) ==
    IF profile = <<"low-power">> THEN "QUIET"
    ELSE IF profile = <<"quiet">> THEN "QUIET"
    ELSE IF profile = <<"balanced">> THEN "BALANCED"
    ELSE IF profile = <<"performance">> THEN "PERFORMANCE"
    ELSE "BALANCED"

\* Variant of get_current_mode that falls back to BALANCED when the profile
\* cannot be read.
get_current_mode_default_balanced(hp, f) ==
    IF ~hp.platform_profile_available THEN "BALANCED"
    ELSE IF CanRead(f.profile) THEN profile_map(Strip(f.profile.content))
    ELSE "BALANCED"

\* get_current_mode: a PerformanceMode member name, or None.
get_current_mode(hp, f) ==
    IF ~hp.platform_profile_available THEN None
    ELSE IF CanRead(f.profile) THEN profile_map(Strip(f.profile.content))
    ELSE None

\* profile_variations in set_mode
profile_variations(mode) ==
    IF mode = "QUIET" THEN <<"low-power", "quiet">>
    ELSE IF mode = "BALANCED" THEN <<"balanced">>
    ELSE IF mode = "PERFORMANCE" THEN <<"performance">>
    ELSE <<>>

\* Variant of the loop without the break: the last variation in available.
RECURSIVE LastVariation(_, _)
LastVariation(variations, available) ==
    IF variations = <<>> THEN None
    ELSE IF LastVariation(Tail(variations), available) # None
         THEN LastVariation(Tail(variations), available)
         ELSE IF InList(<<Head(variations)>>, available) THEN Head(variations)
         ELSE None

\* The loop of set_mode: the first variation that is in available, or None.
RECURSIVE FirstVariation(_, _)
FirstVariation(variations, available) ==
    IF variations = <<>> THEN None
    ELSE IF InList(<<Head(variations)>>, available) THEN Head(variations)
    ELSE FirstVariation(Tail(variations), available)

\* The result of a call that may write: the tree afterwards, the value
\* returned, and the writes it issued in order.
Result(f, ret, log) == [fs |-> f, ret |-> ret, log |-> log]

WriteEntry(file, value, ok) == [file |-> file, value |-> value, ok |-> ok]

\* HpWmiInterface.set_mode
HpWmiInterface_set_mode(hp, f, mode) ==
    IF ~hp.platform_profile_available THEN Result(f, FALSE, <<>>)
    ELSE LET available      == get_available_profiles(f)
             profile_to_set == FirstVariation(profile_variations(mode), available)
         IN  IF profile_to_set = None THEN Result(f, FALSE, <<>>)
             ELSE IF CanWrite(f.profile)
                  THEN Result([f EXCEPT !.profile.content = <<profile_to_set>>], TRUE,
                              <<WriteEntry("platform_profile", <<profile_to_set>>, TRUE)>>)
                  ELSE Result(f, FALSE,
                              <<WriteEntry("platform_profile", <<profile_to_set>>, FALSE)>>)

\* Variant of get_max_fan that takes 2, not 0, for boost.
get_max_fan_on_is_2(hp, f) ==
    IF hp.hwmon_hp_wmi_path = None THEN None
    ELSE IF ~f.pwm.exists THEN None
    ELSE IF CanRead(f.pwm) /\ ParseInt(f.pwm.content).ok
         THEN (IF ParseInt(f.pwm.content).value = 2 THEN "ON" ELSE "OFF")
         ELSE None

\* get_max_fan: "ON", "OFF" or None.
get_max_fan(hp, f) ==
    IF hp.hwmon_hp_wmi_path = None THEN None
    ELSE IF ~f.pwm.exists THEN None
    ELSE IF CanRead(f.pwm) /\ ParseInt(f.pwm.content).ok
         THEN (IF ParseInt(f.pwm.content).value = 0 THEN "ON" ELSE "OFF")
         ELSE None

\* Variant of set_max_fan with the two written values exchanged.
HpWmiInterface_set_max_fan_swapped(hp, f, mode) ==
    IF hp.hwmon_hp_wmi_path = None THEN Result(f, FALSE, <<>>)
    ELSE IF ~f.pwm.exists THEN Result(f, FALSE, <<>>)
    ELSE LET value == IF mode = "ON" THEN <<"2">> ELSE <<"0">>
         IN  IF CanWrite(f.pwm)
             THEN Result([f EXCEPT !.pwm.content = value], TRUE,
                         <<WriteEntry("pwm1_enable", value, TRUE)>>)
             ELSE Result(f, FALSE, <<WriteEntry("pwm1_enable", value, FALSE)>>)

\* set_max_fan
HpWmiInterface_set_max_fan(hp, f, mode) ==
    IF hp.hwmon_hp_wmi_path = None THEN Result(f, FALSE, <<>>)
    ELSE IF ~f.pwm.exists THEN Result(f, FALSE, <<>>)
    ELSE LET value == IF mode = "ON" THEN <<"0">> ELSE <<"2">>
         IN  IF CanWrite(f.pwm)
             THEN Result([f EXCEPT !.pwm.content = value], TRUE,
                         <<WriteEntry("pwm1_enable", value, TRUE)>>)
             ELSE Result(f, FALSE, <<WriteEntry("pwm1_enable", value, FALSE)>>)

\* The hwmon directory a path names: /sys/class/hwmon/hwmonN is a symbolic
\* link to the device's own directory, so both paths name the same files.
RECURSIVE DirsAt(_, _)
DirsAt(entries, path) ==
    IF entries = <<>> THEN <<>>
    ELSE IF path \in {Head(entries).dir, Head(entries).real} THEN <<Head(entries)>>
    ELSE DirsAt(Tail(entries), path)

FanEntry(label, rpm) == [label |-> label, rpm |-> rpm]

\* One fan*_input of _read_fans_from_hwmon: the entry appended, or nothing
\* when a read or int() raises.
ReadFan(ch) ==
    IF ~CanRead(ch.input) \/ ~ParseInt(ch.input.content).ok THEN <<>>
    ELSE IF ch.label.exists
         THEN (IF CanRead(ch.label)
               THEN <<FanEntry(Strip(ch.label.content), ParseInt(ch.input.content).value)>>
               ELSE <<>>)
         ELSE <<FanEntry(<<"f", "a", "n">> \o ch.id, ParseInt(ch.input.content).value)>>

\* _read_fans_from_hwmon over the fan*_input files in glob order
RECURSIVE ReadFans(_)
ReadFans(chans) ==
    IF chans = <<>> THEN <<>> ELSE ReadFan(Head(chans)) \o ReadFans(Tail(chans))

read_fans_from_hwmon(f, hwmon_path) ==
    LET dirs == DirsAt(f.class_hwmon, hwmon_path)
    IN  IF dirs = <<>> THEN <<>> ELSE ReadFans(dirs[1].fans)

\* The second loop of get_fan_speeds: every globbed directory whose path
\* string differs from the cached one.
RECURSIVE OtherFans(_, _, _)
OtherFans(f, entries, hp_path) ==
    IF entries = <<>> THEN <<>>
    ELSE (IF Head(entries).dir # hp_path
          THEN read_fans_from_hwmon(f, Head(entries).dir) ELSE <<>>)
         \o OtherFans(f, Tail(entries), hp_path)

\* get_fan_speeds
get_fan_speeds(hp, f) ==
    (IF hp.hwmon_hp_wmi_path # None
     THEN read_fans_from_hwmon(f, hp.hwmon_hp_wmi_path) ELSE <<>>)
    \o OtherFans(f, f.class_hwmon, hp.hwmon_hp_wmi_path)

\* get_system_info: the dict it returns
get_system_info(hp, f) ==
    [hp_wmi_available           |-> hp.hp_wmi_available,
     platform_profile_available |-> hp.platform_profile_available,
     hwmon_hp_wmi_path          |-> hp.hwmon_hp_wmi_path,
     available_profiles         |-> get_available_profiles(f),
     current_mode               |-> get_current_mode(hp, f),
     max_fan                    |-> get_max_fan(hp, f),
     fan_speeds                 |-> get_fan_speeds(hp, f)]

\* ------------------------------------------------------------------------
\* TemperatureMonitor
\* ------------------------------------------------------------------------

\* A float given exactly: whole degrees plus thousandths.
Float(whole, frac) == [whole |-> whole, frac |-> frac]

\* Optional[float]
SomeValue(x) == [some |-> TRUE, val |-> x]

NoValue == [some |-> FALSE, val |-> Float(0, 0)]

\* self._hwmon_devices[name] = hwmon_dir: a dict keeps the position of a key
\* it already holds and replaces its value.
RECURSIVE DictSet(_, _, _)
DictSet(d, name, path) ==
    IF d = <<>> THEN <<[name |-> name, path |-> path]>>
    ELSE IF Head(d).name = name THEN <<[name |-> name, path |-> path]>> \o Tail(d)
    ELSE <<Head(d)>> \o DictSet(Tail(d), name, path)

\* _discover_hwmon_devices over the globbed directories, from dict d on
RECURSIVE DiscoverFrom(_, _)
DiscoverFrom(entries, d) ==
    IF entries = <<>> THEN d
    ELSE IF Head(entries).has_name /\ Head(entries).name_access # "none"
         THEN DiscoverFrom(Tail(entries),
                           DictSet(d, Strip(Head(entries).name), Head(entries).dir))
         ELSE DiscoverFrom(Tail(entries), d)

discover_hwmon_devices(f) == DiscoverFrom(f.class_hwmon, <<>>)

\* TemperatureReading
Reading(label, device, temperature, critical, max_temp) ==
    [label |-> label, device |-> device, temperature |-> temperature,
     critical |-> critical, max_temp |-> max_temp]

\* temp_milli / 1000.0
MilliToFloat(m) == Float(m \div 1000, m % 1000)

\* The crit and max siblings: the threshold, or None when the file is absent
\* or the read or int() raises.
ReadThreshold(file) ==
    IF CanRead(file) /\ ParseInt(file.content).ok
    THEN SomeValue(MilliToFloat(ParseInt(file.content).value))
    ELSE NoValue

Good(file) == CanRead(file) /\ ParseInt(file.content).ok

ReadTemp_threshold_aborts(device_name, ch) ==
    IF ~CanRead(ch.input) \/ ~ParseInt(ch.input.content).ok THEN <<>>
    ELSE IF ch.label.exists /\ ~CanRead(ch.label) THEN <<>>
    ELSE IF (ch.crit.exists /\ ~Good(ch.crit)) \/ (ch.max.exists /\ ~Good(ch.max)) THEN <<>>
    ELSE <<Reading(IF ch.label.exists THEN Strip(ch.label.content)
                   ELSE device_name \o <<"_", "t", "e", "m", "p">> \o ch.id,
                   device_name,
                   MilliToFloat(ParseInt(ch.input.content).value),
                   ReadThreshold(ch.crit), ReadThreshold(ch.max))>>

\* One temp*_input of _read_temperatures_from_hwmon: the reading appended, or
\* nothing when the read of the input or of the label, or int(), raises.
ReadTemp(device_name, ch) ==
    IF ~CanRead(ch.input) \/ ~ParseInt(ch.input.content).ok THEN <<>>
    ELSE IF ch.label.exists /\ ~CanRead(ch.label) THEN <<>>
    ELSE <<Reading(IF ch.label.exists THEN Strip(ch.label.content)
                   ELSE device_name \o <<"_", "t", "e", "m", "p">> \o ch.id,
                   device_name,
                   MilliToFloat(ParseInt(ch.input.content).value),
                   ReadThreshold(ch.crit), ReadThreshold(ch.max))>>

RECURSIVE ReadTemps(_, _)
ReadTemps(device_name, chans) ==
    IF chans = <<>> THEN <<>>
    ELSE ReadTemp(device_name, Head(chans)) \o ReadTemps(device_name, Tail(chans))

\* _read_temperatures_from_hwmon
read_temperatures_from_hwmon(f, device_name, hwmon_path) ==
    LET dirs == DirsAt(f.class_hwmon, hwmon_path)
    IN  IF dirs = <<>> THEN <<>> ELSE ReadTemps(device_name, dirs[1].temps)

\* get_all_temperatures: the readings of every item of _hwmon_devices
RECURSIVE get_all_temperatures(_, _)
get_all_temperatures(devices, f) ==
    IF devices = <<>> THEN <<>>
    ELSE read_temperatures_from_hwmon(f, Head(devices).name, Head(devices).path)
         \o get_all_temperatures(Tail(devices), f)

cpu_devices ==
    <<<<"c", "o", "r", "e", "t", "e", "m", "p">>,
      <<"k", "1", "0", "t", "e", "m", "p">>,
      <<"z", "e", "n", "p", "o", "w", "e", "r">>>>

gpu_devices ==
    <<<<"a", "m", "d", "g", "p", "u">>,
      <<"n", "v", "i", "d", "i", "a">>,
      <<"n", "o", "u", "v", "e", "a", "u">>>>

\* The iterations of "for device in devices: for reading in readings", as
\* pairs of positions
Iterations(devices, readings) == (1..Len(devices)) \X (1..Len(readings))

\* for device in devices: for reading in readings: if <test>: return
\* reading.temperature -- the value returned, given the iterations whose test
\* holds, or none when the loops end.
FirstByDevice(readings, hits) ==
    IF hits = {} THEN NoValue
    ELSE SomeValue(readings[(CHOOSE h \in hits :
                                \A g \in hits : \/ h[1] < g[1]
                                                \/ h[1] = g[1] /\ h[2] <= g[2])[2]].temperature)

\* for reading in readings: if <test>: return reading.temperature
FirstReading(readings, hits) ==
    IF hits = {} THEN NoValue
    ELSE SomeValue(readings[CHOOSE i \in hits : \A j \in hits : i <= j].temperature)

LabelHas(word, reading) == Contains(word, Lower(reading.label))

get_cpu_temperature_no_package_tier(devices, f) ==
    LET readings == get_all_temperatures(devices, f)
        any      == FirstByDevice(readings,
                        {h \in Iterations(cpu_devices, readings) :
                            readings[h[2]].device = cpu_devices[h[1]]})
        labelled == FirstReading(readings,
                        {i \in 1..Len(readings) : LabelHas(<<"c", "p", "u">>, readings[i])})
    IN  IF any.some THEN any ELSE labelled

\* get_cpu_temperature
get_cpu_temperature(devices, f) ==
    LET readings == get_all_temperatures(devices, f)
        package  == FirstByDevice(readings,
                        {h \in Iterations(cpu_devices, readings) :
                            /\ readings[h[2]].device = cpu_devices[h[1]]
                            /\ \/ LabelHas(<<"p", "a", "c", "k", "a", "g", "e">>, readings[h[2]])
                               \/ LabelHas(<<"t", "c", "t", "l">>, readings[h[2]])})
        any      == FirstByDevice(readings,
                        {h \in Iterations(cpu_devices, readings) :
                            readings[h[2]].device = cpu_devices[h[1]]})
        labelled == FirstReading(readings,
                        {i \in 1..Len(readings) : LabelHas(<<"c", "p", "u">>, readings[i])})
    IN  IF package.some THEN package
        ELSE IF any.some THEN any
        ELSE labelled

\* The exceptions _get_nvidia_smi_temperature catches
SmiCaught == {"FileNotFoundError", "TimeoutExpired", "ValueError", "IndexError"}

\* text.split('\n')[0]
RECURSIVE FirstLine(_)
FirstLine(s) ==
    IF s = <<>> \/ Head(s) = "\n" THEN <<>> ELSE <<Head(s)>> \o FirstLine(Tail(s))

\* float(text) for the whole numbers nvidia-smi prints; any other text
\* raises ValueError.
ParseFloat(s) ==
    [ok |-> ParseInt(s).ok, value |-> Float(ParseInt(s).value, 0)]

\* How one run of nvidia-smi ends: subprocess.run raises (kind names the
\* exception), or the process exits with a return code and its output.
SmiRun(kind, returncode, stdout) ==
    [kind |-> kind, returncode |-> returncode, stdout |-> stdout]

NoSmi == SmiRun("none", 0, <<>>)

\* The try body of _get_nvidia_smi_temperature: the exception it raises, if
\* any, and the value it returns otherwise.
SmiBody(smi) ==
    IF smi.kind # "exit" THEN [exc |-> smi.kind, value |-> NoValue]
    ELSE IF smi.returncode # 0 THEN [exc |-> None, value |-> NoValue]
    ELSE LET parsed == ParseFloat(FirstLine(Strip(smi.stdout)))
         IN  IF parsed.ok THEN [exc |-> None, value |-> SomeValue(parsed.value)]
             ELSE [exc |-> "ValueError", value |-> NoValue]

get_nvidia_smi_temperature_ignores_returncode(smi) ==
    LET body == SmiBody([smi EXCEPT !.returncode = 0])
    IN  IF body.exc \in SmiCaught \cup {None}
        THEN [error |-> None, value |-> body.value]
        ELSE [error |-> body.exc, value |-> NoValue]

\* _get_nvidia_smi_temperature: the value returned and the exception that
\* escapes, if any.
get_nvidia_smi_temperature(smi) ==
    LET body == SmiBody(smi)
    IN  IF body.exc \in SmiCaught \cup {None}
        THEN [error |-> None, value |-> body.value]
        ELSE [error |-> body.exc, value |-> NoValue]

IsGpuPick(d, r) ==
    /\ r.device = d
    /\ \/ LabelHas(<<"e", "d", "g", "e">>, r)
       \/ LabelHas(<<"j", "u", "n", "c", "t", "i", "o", "n">>, r)
       \/ d \in {gpu_devices[2], gpu_devices[3]}

get_gpu_temperature_prefers_junction(devices, f, smi) ==
    LET readings == get_all_temperatures(devices, f)
        junction == FirstByDevice(readings,
                        {h \in Iterations(gpu_devices, readings) :
                            /\ readings[h[2]].device = gpu_devices[h[1]]
                            /\ LabelHas(<<"j", "u", "n", "c", "t", "i", "o", "n">>,
                                        readings[h[2]])})
        pick     == FirstByDevice(readings,
                        {h \in Iterations(gpu_devices, readings) :
                            IsGpuPick(gpu_devices[h[1]], readings[h[2]])})
        any      == FirstByDevice(readings,
                        {h \in Iterations(gpu_devices, readings) :
                            readings[h[2]].device = gpu_devices[h[1]]})
    IN  IF junction.some THEN [error |-> None, value |-> junction, smi |-> NoSmi]
        ELSE IF pick.some THEN [error |-> None, value |-> pick, smi |-> NoSmi]
        ELSE IF any.some THEN [error |-> None, value |-> any, smi |-> NoSmi]
        ELSE [error |-> get_nvidia_smi_temperature(smi).error,
              value |-> get_nvidia_smi_temperature(smi).value, smi |-> smi]

\* get_gpu_temperature: the value returned, the exception that escapes, if
\* any, and the run of nvidia-smi it made, if any.
get_gpu_temperature(devices, f, smi) ==
    LET readings == get_all_temperatures(devices, f)
        pick     == FirstByDevice(readings,
                        {h \in Iterations(gpu_devices, readings) :
                            IsGpuPick(gpu_devices[h[1]], readings[h[2]])})
        any      == FirstByDevice(readings,
                        {h \in Iterations(gpu_devices, readings) :
                            readings[h[2]].device = gpu_devices[h[1]]})
    IN  IF pick.some THEN [error |-> None, value |-> pick, smi |-> NoSmi]
        ELSE IF any.some THEN [error |-> None, value |-> any, smi |-> NoSmi]
        ELSE [error |-> get_nvidia_smi_temperature(smi).error,
              value |-> get_nvidia_smi_temperature(smi).value, smi |-> smi]

\* ------------------------------------------------------------------------
\* FanController
\* ------------------------------------------------------------------------

\* mode_map.get(current_mode, FanMode.BALANCED) in get_status
StatusModeMap(current_mode) ==
    IF current_mode = "QUIET" THEN "QUIET"
    ELSE IF current_mode = "BALANCED" THEN "BALANCED"
    ELSE IF current_mode = "PERFORMANCE" THEN "PERFORMANCE"
    ELSE "BALANCED"

\* Variant of get_status without the max-fan override of the mode.
get_status_no_override(hp, f) ==
    LET current_mode    == get_current_mode(hp, f)
        fan_mode0       == IF current_mode # None THEN StatusModeMap(current_mode) ELSE None
        max_fan         == get_max_fan(hp, f)
        max_fan_enabled == IF max_fan # None THEN max_fan = "ON" ELSE FALSE
    IN  [fan_mode        |-> fan_mode0,
         max_fan_enabled |-> max_fan_enabled,
         is_available    |-> is_available(hp)]

\* Variant of get_status that shows FanMode.OFF when boost reads off and there
\* is no profile to show.
get_status_reports_off(hp, f) ==
    LET current_mode    == get_current_mode(hp, f)
        fan_mode0       == IF current_mode # None THEN StatusModeMap(current_mode) ELSE None
        max_fan         == get_max_fan(hp, f)
        max_fan_enabled == IF max_fan # None THEN max_fan = "ON" ELSE FALSE
    IN  [fan_mode        |-> IF max_fan_enabled THEN "MAX"
                             ELSE IF max_fan = "OFF" /\ fan_mode0 = None THEN "OFF"
                             ELSE fan_mode0,
         max_fan_enabled |-> max_fan_enabled,
         is_available    |-> is_available(hp)]

\* get_status: the mode part of SystemStatus.
get_status(hp, f) ==
    LET current_mode    == get_current_mode(hp, f)
        fan_mode0       == IF current_mode # None THEN StatusModeMap(current_mode) ELSE None
        max_fan         == get_max_fan(hp, f)
        max_fan_enabled == IF max_fan # None THEN max_fan = "ON" ELSE FALSE
    IN  [fan_mode        |-> IF max_fan_enabled THEN "MAX" ELSE fan_mode0,
         max_fan_enabled |-> max_fan_enabled,
         is_available    |-> is_available(hp)]

\* mode_map.get(mode) in FanController.set_mode
SetModeMap(mode) == IF mode \in ProfileModes THEN mode ELSE None

\* Variant of FanController.set_mode that writes the profile before it
\* clears boost.
FanController_set_mode_profile_first(hp, f, mode) ==
    IF mode = "MAX" THEN HpWmiInterface_set_max_fan(hp, f, "ON")
    ELSE IF mode = "OFF" THEN HpWmiInterface_set_max_fan(hp, f, "OFF")
    ELSE LET max_fan == get_max_fan(hp, f)
             r       == HpWmiInterface_set_mode(hp, f, SetModeMap(mode))
             cleared == IF max_fan = "ON" THEN HpWmiInterface_set_max_fan(hp, r.fs, "OFF")
                        ELSE Result(r.fs, FALSE, <<>>)
         IN  Result(cleared.fs, r.ret, r.log \o cleared.log)

\* Variant of FanController.set_mode in which Max also selects the
\* performance profile.
FanController_set_mode_max_sets_profile(hp, f, mode) ==
    IF mode = "MAX"
    THEN LET b == HpWmiInterface_set_max_fan(hp, f, "ON")
             r == HpWmiInterface_set_mode(hp, b.fs, "PERFORMANCE")
         IN  Result(r.fs, b.ret, b.log \o r.log)
    ELSE IF mode = "OFF" THEN HpWmiInterface_set_max_fan(hp, f, "OFF")
    ELSE LET max_fan == get_max_fan(hp, f)
             cleared == IF max_fan = "ON" THEN HpWmiInterface_set_max_fan(hp, f, "OFF")
                        ELSE Result(f, FALSE, <<>>)
             r       == HpWmiInterface_set_mode(hp, cleared.fs, SetModeMap(mode))
         IN  Result(r.fs, r.ret, cleared.log \o r.log)

\* Variant of FanController.set_mode that turns boost back on when the
\* profile write fails after boost was cleared.
FanController_set_mode_rollback(hp, f, mode) ==
    IF mode = "MAX" THEN HpWmiInterface_set_max_fan(hp, f, "ON")
    ELSE IF mode = "OFF" THEN HpWmiInterface_set_max_fan(hp, f, "OFF")
    ELSE LET max_fan == get_max_fan(hp, f)
             cleared == IF max_fan = "ON" THEN HpWmiInterface_set_max_fan(hp, f, "OFF")
                        ELSE Result(f, FALSE, <<>>)
             r       == HpWmiInterface_set_mode(hp, cleared.fs, SetModeMap(mode))
         IN  IF ~r.ret /\ cleared.ret
             THEN Result([r.fs EXCEPT !.pwm = f.pwm], FALSE, cleared.log \o r.log)
             ELSE Result(r.fs, r.ret, cleared.log \o r.log)

\* FanController.set_mode
FanController_set_mode(hp, f, mode) ==
    IF mode = "MAX" THEN HpWmiInterface_set_max_fan(hp, f, "ON")
    ELSE IF mode = "OFF" THEN HpWmiInterface_set_max_fan(hp, f, "OFF")
    ELSE LET max_fan   == get_max_fan(hp, f)
             cleared   == IF max_fan = "ON" THEN HpWmiInterface_set_max_fan(hp, f, "OFF")
                          ELSE Result(f, FALSE, <<>>)
             perf_mode == SetModeMap(mode)
         IN  IF perf_mode # None
             THEN LET r == HpWmiInterface_set_mode(hp, cleared.fs, perf_mode)
                  IN  Result(r.fs, r.ret, cleared.log \o r.log)
             ELSE Result(cleared.fs, FALSE, cleared.log)

\* FanController.set_max_fan
FanController_set_max_fan(hp, f, enabled) ==
    HpWmiInterface_set_max_fan(hp, f, IF enabled THEN "ON" ELSE "OFF")

\* Variant of toggle_max_fan that does not look at the current state.
toggle_max_fan_always_on(hp, f) ==
    LET current == get_max_fan(hp, f)
    IN  IF current = None THEN Result(f, FALSE, <<>>)
        ELSE HpWmiInterface_set_max_fan(hp, f, "ON")

\* toggle_max_fan
toggle_max_fan(hp, f) ==
    LET current == get_max_fan(hp, f)
    IN  IF current = None THEN Result(f, FALSE, <<>>)
        ELSE HpWmiInterface_set_max_fan(hp, f, IF current = "ON" THEN "OFF" ELSE "ON")

\* ------------------------------------------------------------------------
\* Hardware states
\* ------------------------------------------------------------------------

\* Texts of /sys/firmware/acpi/platform_profile as the kernel shows them.
ProfileContents ==
    {<<"low-power", "\n">>, <<"quiet", "\n">>, <<"balanced", "\n">>,
     <<"performance", "\n">>, <<"cool", "\n">>}

\* Texts of platform_profile_choices on different machines.
ChoicesContents ==
    {<<"low-power", " ", "balanced", " ", "performance", "\n">>,
     <<"quiet", " ", "balanced", " ", "performance", "\n">>,
     <<"cool", " ", "quiet", " ", "low-power", " ", "balanced", "\n">>,
     <<"performance", "\n">>}

\* Texts of pwm1_enable: boost, automatic, manual, and an unparsable one.
PwmContents ==
    {<<"0", "\n">>, <<"2", "\n">>, <<"1", "\n">>, <<"x", "\n">>}

ProfileFiles ==
    {NoFile} \cup {File(TRUE, c, a) : c \in ProfileContents, a \in {"none", "ro", "rw"}}

ChoicesFiles ==
    {NoFile} \cup {File(TRUE, c, a) : c \in ChoicesContents, a \in {"none", "ro"}}

PwmFiles ==
    {NoFile} \cup {File(TRUE, c, a) : c \in PwmContents, a \in {"none", "ro", "rw"}}

\* A directory /sys/class/hwmon/hwmonN: its path, the device directory it
\* links to, its name file and its temp*_input and fan*_input channels in
\* glob order.
HwmonDir(dir, real, has_name, name, name_access, temps, fans) ==
    [dir |-> dir, real |-> real, has_name |-> has_name, name |-> name,
     name_access |-> name_access, temps |-> temps, fans |-> fans]

HwmonEntry(dir, has_name, name) == HwmonDir(dir, dir, has_name, name, "ro", <<>>, <<>>)

CoretempEntry == HwmonEntry("/sys/class/hwmon/hwmon0", TRUE,
                            <<"c", "o", "r", "e", "t", "e", "m", "p", "\n">>)

\* The directory layouts: hp-wmi absent although an hp-named hwmon exists;
\* hp-wmi with its own hwmon child; hp-wmi found only by the name scan; hp-wmi
\* present with no hwmon at all.
Layouts ==
    {[hp_wmi_dir |-> FALSE, hp_wmi_hwmon |-> <<>>,
      class_hwmon |-> <<CoretempEntry,
                        HwmonEntry("/sys/class/hwmon/hwmon1", TRUE, <<"h", "p", "\n">>)>>],
     [hp_wmi_dir |-> TRUE,
      hp_wmi_hwmon |-> <<"/sys/devices/platform/hp-wmi/hwmon/hwmon4">>,
      class_hwmon |-> <<CoretempEntry,
                        HwmonDir("/sys/class/hwmon/hwmon4",
                                 "/sys/devices/platform/hp-wmi/hwmon/hwmon4",
                                 TRUE, <<"h", "p", "\n">>, "ro", <<>>, <<>>)>>],
     [hp_wmi_dir |-> TRUE, hp_wmi_hwmon |-> <<>>,
      class_hwmon |-> <<CoretempEntry,
                        HwmonEntry("/sys/class/hwmon/hwmon1", FALSE, <<>>),
                        HwmonEntry("/sys/class/hwmon/hwmon2", TRUE, <<"H", "P", "\n">>)>>],
     [hp_wmi_dir |-> TRUE, hp_wmi_hwmon |-> <<>>,
      class_hwmon |-> <<CoretempEntry>>]}

\* The tree: a layout plus the three control files. pwm is the pwm1_enable of
\* the firmware hwmon directory and exists only when there is such a directory.
Tree(layout, profile, choices, pwm) ==
    [hp_wmi_dir |-> layout.hp_wmi_dir, hp_wmi_hwmon |-> layout.hp_wmi_hwmon,
     class_hwmon |-> layout.class_hwmon,
     profile |-> profile, choices |-> choices, pwm |-> pwm]

Trees ==
    {Tree(l, p, c, w) : l \in Layouts, p \in ProfileFiles, c \in ChoicesFiles,
                        w \in PwmFiles}

\* ------------------------------------------------------------------------
\* State machine
\* ------------------------------------------------------------------------

VARIABLES
    fs,         \* the sysfs tree
    hp,         \* the HpWmiInterface singleton's fields
    lastOp,     \* the last call made: what, with what, its return value, the
                \* tree before it and the writes it issued
    status,     \* the SystemStatus returned by get_status when that was the
                \* last call, and the call that immediately preceded it
    extWrites,  \* number of changes made to the tree from outside so far
    mon,        \* the TemperatureMonitor singleton's _hwmon_devices
    out,        \* the value returned by the last sensor query
    calls       \* the calls two controller instances have in progress

vars == <<fs, hp, lastOp, status, extWrites, mon, out, calls>>

\* No call in progress: every call runs from start to end on its own.
NoCalls == <<>>

Op(op, arg, ret, pre, log) ==
    [op |-> op, arg |-> arg, ret |-> ret, pre |-> pre, log |-> log]

NoStatus(f) ==
    [valid |-> FALSE, fan_mode |-> None, max_fan_enabled |-> FALSE,
     is_available |-> FALSE, after |-> Op("none", None, FALSE, f, <<>>)]

\* No diagnostics dict
NoInfo ==
    [hp_wmi_available |-> FALSE, platform_profile_available |-> FALSE,
     hwmon_hp_wmi_path |-> None, available_profiles |-> <<>>,
     current_mode |-> None, max_fan |-> None, fan_speeds |-> <<>>]

\* The value returned by a sensor query: the fan list of get_fan_speeds, or
\* the readings list and the selected temperature of the temperature queries.
Out(op, pre, fans, readings, value, smi, error) ==
    [op |-> op, pre |-> pre, fans |-> fans, readings |-> readings, value |-> value,
     smi |-> smi, error |-> error, after |-> "none", info |-> NoInfo]

NoOut == Out("none", None, <<>>, <<>>, NoValue, NoSmi, None)

Init ==
    /\ fs \in Trees
    /\ mon = discover_hwmon_devices(fs)
    /\ out = NoOut
    /\ hp = HpWmiInterface_init(fs)
    /\ hp.hwmon_hp_wmi_path = None => fs.pwm = NoFile
    /\ lastOp = Op("construct", None, TRUE, fs, <<>>)
    /\ status = NoStatus(fs)
    /\ extWrites = 0
    /\ calls = NoCalls

\* A call that may write: FanController.set_mode, set_max_fan, toggle_max_fan.
Call(op, arg, r) ==
    /\ fs' = r.fs
    /\ lastOp' = Op(op, arg, r.ret, fs, r.log)
    /\ status' = NoStatus(r.fs)
    /\ out' = NoOut
    /\ UNCHANGED <<hp, extWrites, mon, calls>>

SetMode == \E mode \in FanModes : Call("setMode", mode, FanController_set_mode(hp, fs, mode))

SetBoost ==
    \E enabled \in BOOLEAN :
        Call("setBoost", IF enabled THEN "True" ELSE "False",
             FanController_set_max_fan(hp, fs, enabled))

ToggleBoost == Call("toggleBoost", None, toggle_max_fan(hp, fs))

GetStatus ==
    LET s == get_status(hp, fs)
    IN  /\ status' = [valid |-> TRUE, fan_mode |-> s.fan_mode,
                      max_fan_enabled |-> s.max_fan_enabled,
                      is_available |-> s.is_available, after |-> lastOp]
        /\ lastOp' = Op("getStatus", None, TRUE, fs, <<>>)
        /\ out' = NoOut
        /\ UNCHANGED <<fs, hp, extWrites, mon, calls>>

\* Another process with the needed rights rewrites one of the two control
\* files; the kernel shows the new value with a trailing newline.
ExternalWrite ==
    /\ extWrites < MaxExternalWrites
    /\ \/ /\ fs.profile.exists
          /\ \E c \in ProfileContents : fs' = [fs EXCEPT !.profile.content = c]
       \/ /\ fs.pwm.exists
          /\ \E c \in PwmContents : fs' = [fs EXCEPT !.pwm.content = c]
    /\ extWrites' = extWrites + 1
    /\ lastOp' = Op("external", None, TRUE, fs, <<>>)
    /\ status' = NoStatus(fs')
    /\ out' = NoOut
    /\ UNCHANGED <<hp, mon, calls>>

Next == SetMode \/ SetBoost \/ ToggleBoost \/ GetStatus \/ ExternalWrite

Spec == Init /\ [][Next]_vars

\* ------------------------------------------------------------------------
\* Diagnostics
\* ------------------------------------------------------------------------

\* Variant of get_diagnostics that puts the fans back under automatic control
\* before it reads.
GetDiagnostics_resets_boost ==
    /\ out' = [NoOut EXCEPT !.op = "diagnostics", !.pre = fs, !.after = lastOp.op,
                            !.info = get_system_info(hp, fs)]
    /\ lastOp' = Op("getDiagnostics", None, TRUE, fs, <<>>)
    /\ status' = NoStatus(fs)
    /\ fs' = HpWmiInterface_set_max_fan(hp, fs, "OFF").fs
    /\ UNCHANGED <<hp, extWrites, mon, calls>>

\* FanController.get_diagnostics: the "hp_wmi" entry of the dict it returns.
GetDiagnostics ==
    /\ out' = [NoOut EXCEPT !.op = "diagnostics", !.pre = fs, !.after = lastOp.op,
                            !.info = get_system_info(hp, fs)]
    /\ lastOp' = Op("getDiagnostics", None, TRUE, fs, <<>>)
    /\ status' = NoStatus(fs)
    /\ UNCHANGED <<fs, hp, extWrites, mon, calls>>

NextDiag == Next \/ GetDiagnostics

SpecDiag == Init /\ [][NextDiag]_vars

\* ------------------------------------------------------------------------
\* Two controller instances on the same files
\* ------------------------------------------------------------------------

\* A call of one instance: what was called, where it stands, and the
\* MaxFanMode it has read.
Pending(op, arg) == [op |-> op, arg |-> arg, pc |-> "start", current |-> None]

ConcurrentCalls ==
    {Pending("toggleBoost", None), Pending("setBoost", "True"), Pending("setBoost", "False")}
        \cup {Pending("setMode", mode) : mode \in FanModes}

\* The machines on which both control files can be written
ConcurrentTrees == {t \in Trees : CanWrite(t.pwm) /\ CanWrite(t.profile)}

InitConcurrent ==
    /\ fs \in ConcurrentTrees
    /\ hp = HpWmiInterface_init(fs)
    /\ lastOp = Op("construct", None, TRUE, fs, <<>>)
    /\ status = NoStatus(fs)
    /\ extWrites = 0
    /\ mon = discover_hwmon_devices(fs)
    /\ out = NoOut
    /\ calls \in [1..2 -> ConcurrentCalls]

\* The read of pwm1_enable that opens toggle_max_fan and, for the three
\* profile modes, FanController.set_mode.
ReadBoost ==
    \E i \in 1..2 :
        /\ calls[i].pc = "start"
        /\ \/ calls[i].op = "toggleBoost"
           \/ calls[i].op = "setMode" /\ calls[i].arg \in ProfileModes
        /\ LET current == get_max_fan(hp, fs)
           IN  calls' = [calls EXCEPT
                   ![i].current = current,
                   ![i].pc = IF calls[i].op = "toggleBoost"
                             THEN (IF current = None THEN "done" ELSE "write")
                             ELSE (IF current = "ON" THEN "write" ELSE "profile")]
        /\ UNCHANGED <<fs, hp, lastOp, status, extWrites, mon, out>>

\* The write of pwm1_enable: the whole of set_max_fan and of set_mode(MAX) and
\* set_mode(OFF), the second half of toggle_max_fan, and the clearing of boost
\* in set_mode for a profile mode.
WriteBoost ==
    \E i \in 1..2 :
        LET c == calls[i]
        IN  /\ \/ c.pc = "write"
               \/ c.pc = "start" /\ c.op = "setBoost"
               \/ c.pc = "start" /\ c.op = "setMode" /\ c.arg \in {"MAX", "OFF"}
            /\ fs' = HpWmiInterface_set_max_fan(hp, fs,
                         IF c.op = "toggleBoost"
                         THEN (IF c.current = "ON" THEN "OFF" ELSE "ON")
                         ELSE IF c.op = "setBoost"
                         THEN (IF c.arg = "True" THEN "ON" ELSE "OFF")
                         ELSE (IF c.arg = "MAX" THEN "ON" ELSE "OFF")).fs
            /\ calls' = [calls EXCEPT
                   ![i].pc = IF c.op = "setMode" /\ c.arg \in ProfileModes
                             THEN "profile" ELSE "done"]
            /\ UNCHANGED <<hp, lastOp, status, extWrites, mon, out>>

\* HpWmiInterface.set_mode at the end of FanController.set_mode: the read of
\* platform_profile_choices, which no call writes, and the write of
\* platform_profile.
WriteProfile ==
    \E i \in 1..2 :
        /\ calls[i].pc = "profile"
        /\ fs' = HpWmiInterface_set_mode(hp, fs, SetModeMap(calls[i].arg)).fs
        /\ calls' = [calls EXCEPT ![i].pc = "done"]
        /\ UNCHANGED <<hp, lastOp, status, extWrites, mon, out>>

NextConcurrent == ReadBoost \/ WriteBoost \/ WriteProfile

SpecConcurrent == InitConcurrent /\ [][NextConcurrent]_vars

\* ------------------------------------------------------------------------
\* Discovery and fan speeds over hwmon trees
\* ------------------------------------------------------------------------

\* /sys/class/hwmon/hwmonN is a symbolic link to the hwmonN directory of the
\* device that registered it: the firmware device's own hwmon child, or the
\* hwmon directory of some other device.
ClassPaths ==
    <<"/sys/class/hwmon/hwmon0", "/sys/class/hwmon/hwmon1",
      "/sys/class/hwmon/hwmon2", "/sys/class/hwmon/hwmon3">>

FirmwarePaths ==
    <<"/sys/devices/platform/hp-wmi/hwmon/hwmon0",
      "/sys/devices/platform/hp-wmi/hwmon/hwmon1",
      "/sys/devices/platform/hp-wmi/hwmon/hwmon2",
      "/sys/devices/platform/hp-wmi/hwmon/hwmon3">>

DevicePaths ==
    <<"/sys/devices/virtual/hwmon/hwmon0", "/sys/devices/virtual/hwmon/hwmon1",
      "/sys/devices/virtual/hwmon/hwmon2", "/sys/devices/virtual/hwmon/hwmon3">>

\* A fan channel: fan<id>_input and the optional fan<id>_label
FanChannel(id, input, label) == [id |-> id, input |-> input, label |-> label]

CpuFan == FanChannel(<<"1">>, File(TRUE, <<"2", "4", "0", "0", "\n">>, "ro"), NoFile)

GpuFan == FanChannel(<<"2">>, File(TRUE, <<"3", "1", "0", "0", "\n">>, "ro"),
                     File(TRUE, <<"g", "p", "u", "\n">>, "ro"))

StalledFan == FanChannel(<<"3">>, File(TRUE, <<"\n">>, "ro"), NoFile)

CaseFan == FanChannel(<<"1">>, File(TRUE, <<"1", "8", "0", "0", "\n">>, "ro"), NoFile)

\* What a hwmon directory holds, whatever its number: a CPU sensor without
\* fans, the firmware device named in lower or in upper case, a directory
\* without a name file, and one whose name file cannot be read.
HwmonKinds ==
    {[has_name |-> TRUE, name |-> <<"c", "o", "r", "e", "t", "e", "m", "p", "\n">>,
      name_access |-> "ro", fans |-> <<>>],
     [has_name |-> TRUE, name |-> <<"h", "p", "\n">>,
      name_access |-> "ro", fans |-> <<CpuFan, StalledFan, GpuFan>>],
     [has_name |-> TRUE, name |-> <<"H", "P", "\n">>,
      name_access |-> "ro", fans |-> <<CpuFan>>],
     [has_name |-> FALSE, name |-> <<>>,
      name_access |-> "ro", fans |-> <<CaseFan>>],
     [has_name |-> TRUE, name |-> <<"h", "p", "\n">>,
      name_access |-> "none", fans |-> <<>>]}

\* The kinds the firmware device's own hwmon child can be
FirmwareKinds == {k \in HwmonKinds : k.fans # <<>> /\ k.has_name /\ k.name_access = "ro"}

\* The directories of /sys/class/hwmon in glob order, numbered by position;
\* child is the position of the firmware device's own hwmon child, or 0.
Place(kinds, child) ==
    [i \in 1..Len(kinds) |->
        HwmonDir(ClassPaths[i], IF i = child THEN FirmwarePaths[i] ELSE DevicePaths[i],
                 kinds[i].has_name, kinds[i].name, kinds[i].name_access,
                 <<>>, kinds[i].fans)]

HwmonLayout(hp_wmi_dir, kinds, child) ==
    [hp_wmi_dir |-> hp_wmi_dir,
     hp_wmi_hwmon |-> IF child = 0 THEN <<>> ELSE <<FirmwarePaths[child]>>,
     class_hwmon |-> Place(kinds, child)]

HwmonLayouts ==
    {HwmonLayout(d, kinds, child) :
        <<d, kinds, child>> \in
            {x \in BOOLEAN
                    \X (UNION {[1..n -> HwmonKinds] : n \in 0..MaxClassHwmon})
                    \X (0..MaxClassHwmon) :
                \/ x[3] = 0
                \/ x[1] /\ x[3] <= Len(x[2]) /\ x[2][x[3]] \in FirmwareKinds}}

HwmonTrees ==
    {Tree(l, p, NoFile, NoFile) :
        l \in HwmonLayouts, p \in {NoFile, File(TRUE, <<"balanced", "\n">>, "rw")}}

\* No HpWmiInterface has been constructed.
NoInstance ==
    [hp_wmi_available |-> FALSE, platform_profile_available |-> FALSE,
     hwmon_hp_wmi_path |-> "NoInstance"]

InitHwmon ==
    /\ fs \in HwmonTrees
    /\ hp = NoInstance
    /\ lastOp = Op("none", None, FALSE, fs, <<>>)
    /\ status = NoStatus(fs)
    /\ extWrites = 0
    /\ calls = NoCalls
    /\ mon = <<>>
    /\ out = NoOut

\* HpWmiInterface(): the instance, or no instance when __init__ raises.
ConstructHpWmi ==
    /\ lastOp.op = "none"
    /\ IF detect_hp_wmi_hwmon(fs.hp_wmi_dir, fs) = IOError
       THEN /\ lastOp' = Op("construct", None, FALSE, fs, <<>>)
            /\ UNCHANGED hp
       ELSE /\ lastOp' = Op("construct", None, TRUE, fs, <<>>)
            /\ hp' = HpWmiInterface_init(fs)
    /\ UNCHANGED <<fs, status, extWrites, mon, out, calls>>

GetFanSpeeds ==
    /\ hp # NoInstance
    /\ out' = Out("fanSpeeds", fs, get_fan_speeds(hp, fs), <<>>, NoValue, NoSmi, None)
    /\ UNCHANGED <<fs, hp, lastOp, status, extWrites, mon, calls>>

Reverse(s) == [i \in 1..Len(s) |-> s[Len(s) + 1 - i]]

\* The position of the firmware device's own hwmon child in /sys/class/hwmon
ChildIndex(f) ==
    IF f.hp_wmi_hwmon = <<>> THEN 0
    ELSE CHOOSE i \in 1..Len(f.class_hwmon) : f.class_hwmon[i].real = f.hp_wmi_hwmon[1]

Without(s, i) == [j \in 1..(Len(s) - 1) |-> IF j < i THEN s[j] ELSE s[j + 1]]

\* The drivers are reloaded in the opposite order while the instance lives:
\* every hwmon directory gets another number.
RenumberHwmon ==
    /\ hp # NoInstance
    /\ extWrites < MaxReloads
    /\ Len(fs.class_hwmon) >= 2
    /\ LET child == IF ChildIndex(fs) = 0 THEN 0
                    ELSE Len(fs.class_hwmon) + 1 - ChildIndex(fs)
           layout == HwmonLayout(fs.hp_wmi_dir, Reverse(fs.class_hwmon), child)
       IN  fs' = Tree(layout, fs.profile, fs.choices, fs.pwm)
    /\ extWrites' = extWrites + 1
    /\ UNCHANGED <<hp, lastOp, status, mon, out, calls>>

\* The hp-wmi driver is unloaded while the instance lives: its directory and
\* its hwmon child disappear.
UnloadHpWmi ==
    /\ hp # NoInstance
    /\ extWrites < MaxReloads
    /\ fs.hp_wmi_dir
    /\ LET kinds == IF ChildIndex(fs) = 0 THEN fs.class_hwmon
                    ELSE Without(fs.class_hwmon, ChildIndex(fs))
       IN  fs' = Tree(HwmonLayout(FALSE, kinds, 0), fs.profile, fs.choices, fs.pwm)
    /\ extWrites' = extWrites + 1
    /\ UNCHANGED <<hp, lastOp, status, mon, out, calls>>

NextHwmon == ConstructHpWmi \/ GetFanSpeeds \/ RenumberHwmon \/ UnloadHpWmi

SpecHwmon == InitHwmon /\ [][NextHwmon]_vars

\* ------------------------------------------------------------------------
\* Temperature queries over hwmon trees
\* ------------------------------------------------------------------------

\* A temperature channel: temp<id>_input and its optional label, crit and
\* max siblings
TempChannel(id, input, label, crit, max) ==
    [id |-> id, input |-> input, label |-> label, crit |-> crit, max |-> max]

\* An Intel CPU: one core and the package, thresholds on both
Coretemp ==
     [has_name |-> TRUE, name |-> <<"c", "o", "r", "e", "t", "e", "m", "p", "\n">>, name_access |-> "ro",
      temps |-> <<TempChannel(<<"2">>, File(TRUE, <<"4", "1", "0", "0", "0", "\n">>, "ro"), File(TRUE, <<"C", "o", "r", "e", " ", "0", "\n">>, "ro"),
                 File(TRUE, <<"1", "0", "0", "0", "0", "0", "\n">>, "ro"), File(TRUE, <<"8", "0", "0", "0", "0", "\n">>, "ro")),
                  TempChannel(<<"1">>, File(TRUE, <<"4", "5", "0", "0", "0", "\n">>, "ro"), File(TRUE, <<"P", "a", "c", "k", "a", "g", "e", " ", "i", "d", " ", "0", "\n">>, "ro"),
                 File(TRUE, <<"1", "0", "0", "0", "0", "0", "\n">>, "ro"), File(TRUE, <<"8", "0", "0", "0", "0", "\n">>, "ro"))>>]

\* An AMD CPU with a Tctl channel after a die channel
K10temp ==
     [has_name |-> TRUE, name |-> <<"k", "1", "0", "t", "e", "m", "p", "\n">>, name_access |-> "ro",
      temps |-> <<TempChannel(<<"3">>, File(TRUE, <<"4", "7", "0", "0", "0", "\n">>, "ro"), File(TRUE, <<"T", "c", "c", "d", "1", "\n">>, "ro"),
                 NoFile, NoFile),
                  TempChannel(<<"1">>, File(TRUE, <<"5", "0", "5", "0", "0", "\n">>, "ro"), File(TRUE, <<"T", "c", "t", "l", "\n">>, "ro"),
                 NoFile, NoFile)>>]

\* An AMD CPU whose channel has no label file
Zenpower ==
     [has_name |-> TRUE, name |-> <<"z", "e", "n", "p", "o", "w", "e", "r", "\n">>, name_access |-> "ro",
      temps |-> <<TempChannel(<<"1">>, File(TRUE, <<"5", "2", "0", "0", "0", "\n">>, "ro"), NoFile,
                 NoFile, NoFile)>>]

\* The ACPI thermal zone
Acpitz ==
     [has_name |-> TRUE, name |-> <<"a", "c", "p", "i", "t", "z", "\n">>, name_access |-> "ro",
      temps |-> <<TempChannel(<<"1">>, File(TRUE, <<"3", "8", "0", "0", "0", "\n">>, "ro"), NoFile,
                 NoFile, NoFile)>>]

\* A thermal zone of no known CPU device whose name holds "cpu"
CpuThermal ==
     [has_name |-> TRUE, name |-> <<"c", "p", "u", "_", "t", "h", "e", "r", "m", "a", "l", "\n">>, name_access |-> "ro",
      temps |-> <<TempChannel(<<"1">>, File(TRUE, <<"4", "4", "0", "0", "0", "\n">>, "ro"), NoFile,
                 NoFile, NoFile)>>]

\* An AMD GPU with an edge channel before its junction channel
AmdgpuDiscrete ==
     [has_name |-> TRUE, name |-> <<"a", "m", "d", "g", "p", "u", "\n">>, name_access |-> "ro",
      temps |-> <<TempChannel(<<"1">>, File(TRUE, <<"6", "0", "0", "0", "0", "\n">>, "ro"), File(TRUE, <<"e", "d", "g", "e", "\n">>, "ro"),
                 NoFile, NoFile),
                  TempChannel(<<"2">>, File(TRUE, <<"7", "5", "0", "0", "0", "\n">>, "ro"), File(TRUE, <<"j", "u", "n", "c", "t", "i", "o", "n", "\n">>, "ro"),
                 NoFile, NoFile)>>]

\* A second AMD GPU, junction before edge
AmdgpuIntegrated ==
     [has_name |-> TRUE, name |-> <<"a", "m", "d", "g", "p", "u", "\n">>, name_access |-> "ro",
      temps |-> <<TempChannel(<<"2">>, File(TRUE, <<"6", "6", "0", "0", "0", "\n">>, "ro"), File(TRUE, <<"J", "u", "n", "c", "t", "i", "o", "n", "\n">>, "ro"),
                 NoFile, NoFile),
                  TempChannel(<<"1">>, File(TRUE, <<"6", "1", "0", "0", "0", "\n">>, "ro"), File(TRUE, <<"E", "d", "g", "e", "\n">>, "ro"),
                 NoFile, NoFile)>>]

\* An AMD GPU that exposes only its memory sensor
AmdgpuMem ==
     [has_name |-> TRUE, name |-> <<"a", "m", "d", "g", "p", "u", "\n">>, name_access |-> "ro",
      temps |-> <<TempChannel(<<"3">>, File(TRUE, <<"7", "0", "0", "0", "0", "\n">>, "ro"), File(TRUE, <<"m", "e", "m", "\n">>, "ro"),
                 NoFile, NoFile)>>]

\* An NVIDIA GPU behind the proprietary driver
Nvidia ==
     [has_name |-> TRUE, name |-> <<"n", "v", "i", "d", "i", "a", "\n">>, name_access |-> "ro",
      temps |-> <<TempChannel(<<"1">>, File(TRUE, <<"5", "4", "0", "0", "0", "\n">>, "ro"), NoFile,
                 NoFile, NoFile)>>]

\* An NVIDIA GPU behind nouveau
Nouveau ==
     [has_name |-> TRUE, name |-> <<"n", "o", "u", "v", "e", "a", "u", "\n">>, name_access |-> "ro",
      temps |-> <<TempChannel(<<"1">>, File(TRUE, <<"4", "9", "0", "0", "0", "\n">>, "ro"), NoFile,
                 File(TRUE, <<"1", "0", "5", "0", "0", "0", "\n">>, "ro"), File(TRUE, <<"9", "5", "0", "0", "0", "\n">>, "ro"))>>]

\* A drive whose channels fail in every way: malformed, unreadable and
\* vanished inputs, unparsable and unreadable thresholds, an unreadable label
Nvme ==
     [has_name |-> TRUE, name |-> <<"n", "v", "m", "e", "\n">>, name_access |-> "ro",
      temps |-> <<TempChannel(<<"1">>, File(TRUE, <<"\n">>, "ro"), NoFile,
                 NoFile, NoFile),
                  TempChannel(<<"2">>, File(TRUE, <<"3", "6", "0", "0", "0", "\n">>, "none"), NoFile,
                 NoFile, NoFile),
                  TempChannel(<<"3">>, File(TRUE, <<"3", "5", "8", "5", "0", "\n">>, "ro"), File(TRUE, <<"C", "o", "m", "p", "o", "s", "i", "t", "e", "\n">>, "ro"),
                 File(TRUE, <<"\n">>, "ro"), File(TRUE, <<"8", "2", "0", "0", "0", "\n">>, "ro")),
                  TempChannel(<<"4">>, File(TRUE, <<"3", "7", "0", "0", "0", "\n">>, "ro"), NoFile,
                 File(TRUE, <<"8", "4", "0", "0", "0", "\n">>, "none"), NoFile),
                  TempChannel(<<"5">>, File(TRUE, <<"3", "9", "0", "0", "0", "\n">>, "ro"), File(TRUE, <<"S", "e", "n", "s", "o", "r", " ", "2", "\n">>, "none"),
                 NoFile, NoFile),
                  TempChannel(<<"6">>, NoFile, NoFile,
                 NoFile, NoFile)>>]

\* A directory without a name file
Nameless ==
     [has_name |-> FALSE, name |-> <<>>, name_access |-> "ro",
      temps |-> <<TempChannel(<<"1">>, File(TRUE, <<"3", "0", "0", "0", "0", "\n">>, "ro"), NoFile,
                 NoFile, NoFile)>>]

\* A directory whose name file cannot be read
Unnamed ==
     [has_name |-> TRUE, name |-> <<"a", "c", "p", "i", "t", "z", "\n">>, name_access |-> "none",
      temps |-> <<TempChannel(<<"1">>, File(TRUE, <<"3", "1", "0", "0", "0", "\n">>, "ro"), NoFile,
                 NoFile, NoFile)>>]

TempKinds ==
    {Coretemp, K10temp, Zenpower, Acpitz, CpuThermal,
     AmdgpuDiscrete, AmdgpuIntegrated, AmdgpuMem, Nvidia, Nouveau,
     Nvme, Nameless, Unnamed}

\* The directories of /sys/class/hwmon in glob order, numbered by position
PlaceTemps(kinds) ==
    [i \in 1..Len(kinds) |->
        HwmonDir(ClassPaths[i], DevicePaths[i],
                 kinds[i].has_name, kinds[i].name, kinds[i].name_access,
                 kinds[i].temps, <<>>)]

TempTrees ==
    {Tree([hp_wmi_dir |-> FALSE, hp_wmi_hwmon |-> <<>>, class_hwmon |-> PlaceTemps(kinds)],
          NoFile, NoFile, NoFile) :
        kinds \in UNION {[1..n -> TempKinds] : n \in 0..MaxHwmonDirs}}

\* The ways a run of nvidia-smi ends: not installed, hung, installed but not
\* executable, or exited with this code and this output.
SmiOutcomes ==
    {SmiRun("FileNotFoundError", 0, <<>>),
     SmiRun("TimeoutExpired", 0, <<>>),
     SmiRun("PermissionError", 0, <<>>),
     SmiRun("exit", 0, <<"5", "7", "\n">>),
     SmiRun("exit", 0, <<"5", "7", "\n", "6", "3", "\n">>),
     SmiRun("exit", 0, <<"[", "N", "/", "A", "]", "\n">>),
     SmiRun("exit", 0, <<>>),
     SmiRun("exit", 9, <<"5", "7", "\n">>)}

\* The state after TemperatureMonitor(): the devices found by discovery.
InitTemp ==
    /\ fs \in TempTrees
    /\ hp = NoInstance
    /\ lastOp = Op("none", None, FALSE, fs, <<>>)
    /\ status = NoStatus(fs)
    /\ extWrites = 0
    /\ calls = NoCalls
    /\ mon = discover_hwmon_devices(fs)
    /\ out = NoOut

GetAllTemperatures ==
    /\ out' = Out("readAll", fs, <<>>, get_all_temperatures(mon, fs), NoValue, NoSmi, None)
    /\ UNCHANGED <<fs, hp, lastOp, status, extWrites, mon, calls>>

GetCpuTemperature ==
    /\ out' = Out("cpu", fs, <<>>, get_all_temperatures(mon, fs),
                  get_cpu_temperature(mon, fs), NoSmi, None)
    /\ UNCHANGED <<fs, hp, lastOp, status, extWrites, mon, calls>>

GetGpuTemperature ==
    /\ \E smi \in SmiOutcomes :
          LET r == get_gpu_temperature(mon, fs, smi)
          IN  out' = Out("gpu", fs, <<>>, get_all_temperatures(mon, fs),
                         r.value, r.smi, r.error)
    /\ UNCHANGED <<fs, hp, lastOp, status, extWrites, mon, calls>>

NextTemp == GetAllTemperatures \/ GetCpuTemperature \/ GetGpuTemperature

SpecTemp == InitTemp /\ [][NextTemp]_vars

\* ------------------------------------------------------------------------
\* Vocabulary of the properties
\* ------------------------------------------------------------------------

\* pwm1_enable of the firmware hwmon device can be read and holds 0.
BoostReadsOn(f) ==
    /\ hp.hwmon_hp_wmi_path # None
    /\ CanRead(f.pwm)
    /\ Strip(f.pwm.content) = <<"0">>

\* The legal-value set the platform advertises: the words of
\* platform_profile_choices.
LegalSet(f) ==
    IF f.choices.exists
    THEN {f.choices.content[i] : i \in {j \in 1..Len(f.choices.content) :
                                            ~IsSpace(f.choices.content[j])}}
    ELSE {}

\* The candidate strings of a profile mode, in order.
Candidates(mode) ==
    IF mode = "QUIET" THEN <<"low-power", "quiet">>
    ELSE IF mode = "BALANCED" THEN <<"balanced">> ELSE <<"performance">>

NoCandidateLegal(f, mode) ==
    \A i \in 1..Len(Candidates(mode)) : Candidates(mode)[i] \notin LegalSet(f)

\* The last call was set_mode with a profile mode / the last call was
\* get_status and the call right before it was set_mode(mode).
LastSetProfileMode == lastOp.op = "setMode" /\ lastOp.arg \in ProfileModes

StatusAfterSetMode(mode) ==
    status.valid /\ status.after.op = "setMode" /\ status.after.arg = mode

PwmWrites(log) == {i \in 1..Len(log) : log[i].file = "pwm1_enable"}

ProfileWrites(log) == {i \in 1..Len(log) : log[i].file = "platform_profile"}

\* ------------------------------------------------------------------------
\* Properties
\* ------------------------------------------------------------------------

\* C1: whenever pwm1_enable reads as 0, get_status reports fan_mode = Max,
\* whatever the platform profile holds and also when there is no profile file.
C1_MaxOverridesProfile ==
    (status.valid /\ BoostReadsOn(fs)) => status.fan_mode = "MAX"

C1_Witness ==
    /\ status.valid /\ BoostReadsOn(fs)
    /\ ~hp.platform_profile_available
    /\ status.fan_mode = "MAX"

\* C2: set_mode(Quiet|Balanced|Performance) called when no candidate string of
\* the target is in the advertised legal-value set returns failure and leaves
\* both platform_profile and pwm1_enable as they were (stated here for the
\* trees that have a platform_profile file).
C2_NoCandidateNoMutation ==
    (/\ LastSetProfileMode
     /\ lastOp.pre.profile.exists
     /\ NoCandidateLegal(lastOp.pre, lastOp.arg))
        => /\ lastOp.ret = FALSE
           /\ fs.profile = lastOp.pre.profile
           /\ fs.pwm = lastOp.pre.pwm

\* C3 as stated: get_status right after set_mode(Off) never reports Max.
C3_OffNeverMax ==
    StatusAfterSetMode("OFF") => status.fan_mode # "MAX"

\* C3: get_status right after set_mode(Off) reports Max only if boost read on
\* before the call and the call returned failure (the boost write failed).
C3_OffNeverMaxUnlessWriteFailed ==
    (StatusAfterSetMode("OFF") /\ status.fan_mode = "MAX")
        => (status.after.ret = FALSE /\ BoostReadsOn(status.after.pre))

C3_Witness ==
    /\ StatusAfterSetMode("OFF")
    /\ BoostReadsOn(status.after.pre)
    /\ status.after.ret = TRUE
    /\ status.fan_mode # "MAX"

\* C4: if set_mode(Max) returns success, the get_status right after it reports
\* fan_mode = Max and max_fan_enabled, with or without a profile file.
C4_MaxThenStatusMax ==
    (StatusAfterSetMode("MAX") /\ status.after.ret = TRUE)
        => (status.fan_mode = "MAX" /\ status.max_fan_enabled)

C4_Witness ==
    /\ StatusAfterSetMode("MAX") /\ status.after.ret = TRUE
    /\ ~BoostReadsOn(status.after.pre)
    /\ ~hp.platform_profile_available
    /\ status.fan_mode = "MAX"

\* C5 as stated: with "performance" legal and boost off, set_mode(Performance)
\* followed at once by get_status yields Performance (stated here for the
\* trees with a platform_profile file and a readable choices file).
C5_PerformanceRoundTrip ==
    (/\ StatusAfterSetMode("PERFORMANCE")
     /\ status.after.pre.profile.exists
     /\ CanRead(status.after.pre.choices)
     /\ "performance" \in LegalSet(status.after.pre)
     /\ ~BoostReadsOn(status.after.pre))
        => status.fan_mode = "PERFORMANCE"

\* C5: with "performance" legal and boost off, a set_mode(Performance) that
\* returns success, followed at once by get_status, yields Performance.
C5_PerformanceRoundTripOnSuccess ==
    (/\ StatusAfterSetMode("PERFORMANCE")
     /\ status.after.pre.profile.exists
     /\ CanRead(status.after.pre.choices)
     /\ "performance" \in LegalSet(status.after.pre)
     /\ ~BoostReadsOn(status.after.pre)
     /\ status.after.ret = TRUE)
        => status.fan_mode = "PERFORMANCE"

C5_Witness ==
    /\ StatusAfterSetMode("PERFORMANCE")
    /\ "performance" \in LegalSet(status.after.pre)
    /\ ~BoostReadsOn(status.after.pre)
    /\ status.after.ret = TRUE
    /\ Strip(status.after.pre.profile.content) = <<"low-power">>
    /\ status.fan_mode = "PERFORMANCE"

\* C6: whenever set_mode(target) with a profile target returns success, the
\* get_status right after it reports fan_mode = target, also when boost was on
\* before the call.
C6_ProfileVisibleAfterSuccess ==
    \A target \in ProfileModes :
        (StatusAfterSetMode(target) /\ status.after.ret = TRUE)
            => status.fan_mode = target

\* C7: in set_mode with a profile target, if boost reads on at the start the
\* write turning it off is issued before any write to platform_profile; if
\* boost reads off or cannot be read, no write to pwm1_enable is issued.
C7_BoostClearedFirst ==
    LastSetProfileMode =>
        IF BoostReadsOn(lastOp.pre)
        THEN /\ PwmWrites(lastOp.log) = {1}
             /\ lastOp.log[1].value = <<"2">>
             /\ \A i \in ProfileWrites(lastOp.log) : i > 1
        ELSE PwmWrites(lastOp.log) = {}

C7_Witness ==
    /\ LastSetProfileMode
    /\ BoostReadsOn(lastOp.pre)
    /\ Len(lastOp.log) = 2
    /\ lastOp.log[2].file = "platform_profile"

\* C8: set_mode(Max), set_mode(Off), set_max_fan and toggle_max_fan never write
\* platform_profile: it holds afterwards what it held before, on success and
\* on failure.
C8_BoostOpsLeaveProfile ==
    (\/ lastOp.op \in {"setBoost", "toggleBoost"}
     \/ (lastOp.op = "setMode" /\ lastOp.arg \in {"MAX", "OFF"}))
        => /\ fs.profile = lastOp.pre.profile
           /\ ProfileWrites(lastOp.log) = {}

C8_Witness ==
    /\ lastOp.op = "setMode" /\ lastOp.arg = "MAX" /\ lastOp.ret = TRUE
    /\ fs.pwm # lastOp.pre.pwm
    /\ CanWrite(fs.profile)
    /\ "performance" \in LegalSet(fs)
    /\ Strip(fs.profile.content) = <<"quiet">>

\* C9: no rollback: in set_mode with a profile target started with boost on,
\* if the boost-clear write succeeds and the profile write then fails, the call
\* returns failure, boost is off afterwards and platform_profile is unchanged.
C9_NoRollback ==
    (/\ LastSetProfileMode
     /\ BoostReadsOn(lastOp.pre)
     /\ Len(lastOp.log) = 2
     /\ lastOp.log[1].file = "pwm1_enable" /\ lastOp.log[1].ok
     /\ lastOp.log[2].file = "platform_profile" /\ ~lastOp.log[2].ok)
        => /\ lastOp.ret = FALSE
           /\ fs.pwm.content = <<"2">>
           /\ ~BoostReadsOn(fs)
           /\ fs.profile = lastOp.pre.profile

C9_Witness ==
    /\ LastSetProfileMode
    /\ BoostReadsOn(lastOp.pre)
    /\ Len(lastOp.log) = 2
    /\ lastOp.log[1].ok /\ ~lastOp.log[2].ok
    /\ lastOp.ret = FALSE

\* The profile file holds exactly one word and it is a legal value.
LegalProfile(f) ==
    /\ f.profile.exists
    /\ Len(Strip(f.profile.content)) = 1
    /\ Strip(f.profile.content)[1] \in LegalSet(f)

\* Every write to platform_profile in the log is the first candidate of the
\* mode that is in the legal-value set of the tree the call started from.
WritesFirstLegalCandidate(op) ==
    \A i \in ProfileWrites(op.log) :
        LET cands == Candidates(op.arg)
        IN  /\ op.op = "setMode" /\ op.arg \in ProfileModes
            /\ CanRead(op.pre.choices)
            /\ \E k \in 1..Len(cands) :
                  /\ op.log[i].value = <<cands[k]>>
                  /\ cands[k] \in LegalSet(op.pre)
                  /\ \A j \in 1..(k - 1) : cands[j] \notin LegalSet(op.pre)

\* C10: every string the controller writes to platform_profile is in the
\* legal-value set read during that call and is the first candidate of the
\* target present in it; so a controller call made while platform_profile
\* holds a legal value leaves it holding a legal value.
C10_WritesLegalFirstCandidate ==
    [][lastOp'.op # "external"
          => /\ WritesFirstLegalCandidate(lastOp')
             /\ (LegalProfile(fs) => LegalProfile(fs'))]_vars

C10_Witness ==
    /\ lastOp.op = "setMode" /\ lastOp.arg = "QUIET" /\ lastOp.ret = TRUE
    /\ {"quiet", "low-power"} \subseteq LegalSet(lastOp.pre)
    /\ Strip(lastOp.pre.profile.content) = <<"balanced">>
    /\ fs.profile.content = <<"low-power">>

\* C11: with boost not reading on and platform_profile readable, get_status
\* maps "low-power" and "quiet" to Quiet, "balanced" to Balanced,
\* "performance" to Performance and every other text to Balanced.
C11_ProfileNameMapping ==
    (/\ status.valid
     /\ ~BoostReadsOn(fs)
     /\ hp.platform_profile_available /\ CanRead(fs.profile))
        => LET text == Strip(fs.profile.content)
           IN  status.fan_mode =
                 (IF text \in {<<"low-power">>, <<"quiet">>} THEN "QUIET"
                  ELSE IF text = <<"performance">> THEN "PERFORMANCE"
                  ELSE "BALANCED")

C11_Witness ==
    /\ status.valid /\ ~BoostReadsOn(fs) /\ CanRead(fs.profile)
    /\ Strip(fs.profile.content) = <<"quiet">>
    /\ status.fan_mode = "QUIET"

\* C12: when platform_profile was absent at construction or cannot be read,
\* get_status reports fan_mode as None, except that it reports Max when
\* pwm1_enable of the firmware hwmon device reads 0; it never reports a
\* profile mode.
C12_NoProfileNoDefaultMode ==
    (status.valid /\ (~hp.platform_profile_available \/ ~CanRead(fs.profile)))
        => status.fan_mode = (IF BoostReadsOn(fs) THEN "MAX" ELSE None)

C12_Witness ==
    /\ status.valid
    /\ hp.platform_profile_available /\ ~CanRead(fs.profile)
    /\ Strip(fs.profile.content) = <<"performance">>
    /\ ~BoostReadsOn(fs)
    /\ status.fan_mode = None

\* pwm1_enable of the firmware hwmon device can be read and holds an integer.
BoostReadable(f) ==
    /\ hp.hwmon_hp_wmi_path # None
    /\ CanRead(f.pwm)
    /\ Strip(f.pwm.content) \in {<<"0">>, <<"1">>, <<"2">>}

\* What toggle_max_fan did, given the tree it started from.
ToggleAsSpecified(op) ==
    IF ~BoostReadable(op.pre)
    THEN op.ret = FALSE /\ op.log = <<>>
    ELSE /\ Len(op.log) = 1
         /\ op.log[1].file = "pwm1_enable"
         /\ op.log[1].value = (IF BoostReadsOn(op.pre) THEN <<"2">> ELSE <<"0">>)
         /\ op.ret = op.log[1].ok

\* C13: toggle_max_fan returns failure and issues no write when the boost
\* surface is unavailable (no firmware hwmon, no pwm1_enable, unreadable or
\* unparsable); otherwise it writes the opposite of the state it read, so two
\* consecutive successful toggles restore the original on/off state.
C13_ToggleBoost ==
    [][/\ lastOp'.op = "toggleBoost" => ToggleAsSpecified(lastOp')
       /\ (/\ lastOp.op = "toggleBoost" /\ lastOp.ret
           /\ lastOp'.op = "toggleBoost" /\ lastOp'.ret)
              => (BoostReadsOn(fs') <=> BoostReadsOn(lastOp.pre))]_vars

C13_Witness ==
    /\ lastOp.op = "toggleBoost" /\ lastOp.ret
    /\ lastOp.pre.pwm.content = <<"0">>
    /\ fs.pwm.content = <<"2">>

\* ------------------------------------------------------------------------
\* Fan speeds and discovery
\* ------------------------------------------------------------------------

\* The fan entries of the directories of a sequence, in order
RECURSIVE FansOf(_)
FansOf(entries) ==
    IF entries = <<>> THEN <<>> ELSE ReadFans(Head(entries).fans) \o FansOf(Tail(entries))

\* The hwmon device the cached path leads to, by either of its paths
IsFirmwareDevice(e) == hp.hwmon_hp_wmi_path \in {e.dir, e.real}

\* C19: get_fan_speeds lists the fan entries of the firmware hwmon device
\* first, then those of all other hwmon devices, and the firmware device's
\* channels do not appear a second time among the others, however the
\* firmware device was located.
C19_FirmwareFansOnce ==
    out.op = "fanSpeeds"
        => out.fans = FansOf(SelectSeq(out.pre.class_hwmon, IsFirmwareDevice))
                      \o FansOf(SelectSeq(out.pre.class_hwmon,
                                          LAMBDA e : ~IsFirmwareDevice(e)))

\* The name file's text holds "hp" in any mix of cases.
HpNamed(e) ==
    /\ e.has_name
    /\ \E i \in 1..(Len(e.name) - 1) :
          e.name[i] \in {"h", "H"} /\ e.name[i + 1] \in {"p", "P"}

\* The path of the first of the entries at the positions S, if any
FirstOf(entries, S) ==
    IF S = {} THEN None
    ELSE entries[CHOOSE i \in S : \A j \in S : i <= j].dir

ReadableHpNamed(e) == HpNamed(e) /\ e.name_access = "ro"

\* The name scan meets a name file it cannot read before any match.
ScanRaises(entries) ==
    \E i \in 1..Len(entries) :
        /\ entries[i].has_name /\ entries[i].name_access = "none"
        /\ \A j \in 1..(i - 1) : ~ReadableHpNamed(entries[j])

Rank(devices, reading) ==
    IF InList(reading.device, devices)
    THEN CHOOSE k \in 1..Len(devices) : devices[k] = reading.device
    ELSE 0

\* Among the readings at the positions S, the one of the device that comes
\* first in the list of known devices, and the first of that device.
Best(devices, R, S) ==
    CHOOSE i \in S :
        \A j \in S : \/ Rank(devices, R[i]) < Rank(devices, R[j])
                     \/ Rank(devices, R[i]) = Rank(devices, R[j]) /\ i <= j

\* C14: get_cpu_temperature returns the temperature of a reading of a known CPU
\* device (coretemp, then k10temp, then zenpower) whose label contains
\* "package" or "tctl" in any case, if there is one; else of the first reading
\* of a known CPU device; else of the first reading whose label contains
\* "cpu"; else none.
C14_CpuResolution ==
    out.op = "cpu"
        => LET R       == out.readings
               Cpu     == {i \in 1..Len(R) : Rank(cpu_devices, R[i]) > 0}
               Package == {i \in Cpu : \/ LabelHas(<<"p", "a", "c", "k", "a", "g", "e">>, R[i])
                                       \/ LabelHas(<<"t", "c", "t", "l">>, R[i])}
               Label   == {i \in 1..Len(R) : LabelHas(<<"c", "p", "u">>, R[i])}
           IN  /\ out.error = None
               /\ out.value =
                     (IF Package # {}
                      THEN SomeValue(R[Best(cpu_devices, R, Package)].temperature)
                      ELSE IF Cpu # {}
                      THEN SomeValue(R[Best(cpu_devices, R, Cpu)].temperature)
                      ELSE IF Label # {}
                      THEN SomeValue(R[CHOOSE i \in Label : \A j \in Label : i <= j].temperature)
                      ELSE NoValue)

\* The acpitz reading comes first in the scan and the coretemp package wins.
C14_Witness ==
    /\ out.op = "cpu"
    /\ Len(out.readings) = 3
    /\ out.readings[1].device = <<"a", "c", "p", "i", "t", "z">>
    /\ out.readings[3].label = <<"P", "a", "c", "k", "a", "g", "e", " ", "i", "d", " ", "0">>
    /\ out.value = SomeValue(Float(45, 0))

EdgeThenJunction ==
    <<Reading(<<"e", "d", "g", "e">>, gpu_devices[1], Float(60, 0), NoValue, NoValue),
      Reading(<<"j", "u", "n", "c", "t", "i", "o", "n">>, gpu_devices[1], Float(75, 0), NoValue, NoValue)>>

\* C15: on the readings [(amdgpu, "edge", 60.0), (amdgpu, "junction", 75.0)]
\* in that scan order get_gpu_temperature returns 75.0, the junction reading.
C15_JunctionReturned ==
    (out.op = "gpu" /\ out.readings = EdgeThenJunction)
        => out.value = SomeValue(Float(75, 0))

\* C15 as the code has it: on those readings get_gpu_temperature returns 60.0;
\* of an amdgpu device's edge and junction readings the one that comes first
\* in the scan is returned.
C15_FirstOfEdgeAndJunctionReturned ==
    out.op = "gpu"
        => LET R    == out.readings
               Pick == {i \in 1..Len(R) :
                           /\ R[i].device = gpu_devices[1]
                           /\ \/ LabelHas(<<"e", "d", "g", "e">>, R[i])
                              \/ LabelHas(<<"j", "u", "n", "c", "t", "i", "o", "n">>, R[i])}
           IN  /\ Pick # {}
                    => out.value =
                          SomeValue(R[CHOOSE i \in Pick : \A j \in Pick : i <= j].temperature)
               /\ R = EdgeThenJunction => out.value = SomeValue(Float(60, 0))

C15_Witness ==
    /\ out.op = "gpu"
    /\ out.readings = EdgeThenJunction
    /\ out.value = SomeValue(Float(60, 0))

\* The failures of the external tool: not found, timeout, non-zero exit,
\* unparsable output
SmiFails(smi) ==
    \/ smi.kind \in {"FileNotFoundError", "TimeoutExpired"}
    \/ smi.kind = "exit" /\ smi.returncode # 0
    \/ smi.kind = "exit" /\ ~ParseFloat(FirstLine(Strip(smi.stdout))).ok

SmiSucceeds(smi) ==
    smi.kind = "exit" /\ smi.returncode = 0 /\ ParseFloat(FirstLine(Strip(smi.stdout))).ok

Usable(ch) == Good(ch.input) /\ (ch.label.exists => CanRead(ch.label))

LabelOf(name, ch) ==
    IF ch.label.exists THEN Strip(ch.label.content)
    ELSE Strip(name) \o <<"_", "t", "e", "m", "p">> \o ch.id

\* C17: get_all_temperatures holds a reading for every usable channel of every
\* directory whose name file was readable at discovery, whether or not the
\* directories' names are distinct.
C17_EveryDirectoryCovered ==
    out.op = "readAll"
        => \A i \in 1..Len(out.pre.class_hwmon) :
              LET dir == out.pre.class_hwmon[i]
              IN  (dir.has_name /\ dir.name_access = "ro")
                     => \A c \in 1..Len(dir.temps) :
                           Usable(dir.temps[c])
                              => \E k \in 1..Len(out.readings) :
                                    /\ out.readings[k].device = Strip(dir.name)
                                    /\ out.readings[k].label = LabelOf(dir.name, dir.temps[c])
                                    /\ out.readings[k].temperature =
                                          MilliToFloat(ParseInt(dir.temps[c].input.content).value)

\* The directory a device name of _hwmon_devices leads to
DirOf(f, device) == DirsAt(f.class_hwmon, device.path)[1]

RECURSIVE UsableCount(_, _)
UsableCount(f, devices) ==
    IF devices = <<>> THEN 0
    ELSE Cardinality({c \in 1..Len(DirOf(f, Head(devices)).temps) :
                         Usable(DirOf(f, Head(devices)).temps[c])})
         + UsableCount(f, Tail(devices))

\* C18: of the directories get_all_temperatures scans, every usable channel
\* yields its reading and nothing else does, whatever fails on the channels
\* around it: an input that is missing, unreadable or malformed costs that one
\* reading only, and a crit or max file that is absent, unreadable or
\* unparsable leaves that threshold empty in a reading that is still returned.
C18_FailureIsolation ==
    out.op = "readAll"
        => /\ Len(out.readings) = UsableCount(out.pre, mon)
           /\ \A d \in 1..Len(mon) :
                 \A c \in 1..Len(DirOf(out.pre, mon[d]).temps) :
                    LET ch == DirOf(out.pre, mon[d]).temps[c]
                    IN  Usable(ch)
                           => \E k \in 1..Len(out.readings) :
                                 out.readings[k] =
                                    Reading(LabelOf(mon[d].name, ch), mon[d].name,
                                            MilliToFloat(ParseInt(ch.input.content).value),
                                            IF Good(ch.crit)
                                            THEN SomeValue(MilliToFloat(ParseInt(ch.crit.content).value))
                                            ELSE NoValue,
                                            IF Good(ch.max)
                                            THEN SomeValue(MilliToFloat(ParseInt(ch.max.content).value))
                                            ELSE NoValue)

\* The drive's two usable channels are returned with an empty crit, and the
\* scan went on to the next device.
C18_Witness ==
    /\ out.op = "readAll"
    /\ Len(out.readings) = 3
    /\ out.readings[1].device = <<"n", "v", "m", "e">>
    /\ out.readings[1].critical = NoValue
    /\ out.readings[1].max_temp = SomeValue(Float(82, 0))
    /\ out.readings[2].critical = NoValue
    /\ out.readings[3].device = <<"z", "e", "n", "p", "o", "w", "e", "r">>

\* ------------------------------------------------------------------------
\* Construction
\* ------------------------------------------------------------------------

\* The tree with every hwmon name file that cannot be read taken away
AsIfAbsent(f) ==
    [f EXCEPT !.class_hwmon =
        [i \in 1..Len(f.class_hwmon) |->
            IF f.class_hwmon[i].name_access = "none"
            THEN [f.class_hwmon[i] EXCEPT !.has_name = FALSE]
            ELSE f.class_hwmon[i]]]

\* C21: construction never raises; a hwmon name file that cannot be read,
\* met during the fallback scan included, counts exactly as an absent one and
\* construction completes.
C21_DiscoveryNeverRaises ==
    lastOp.op = "construct"
        => lastOp.ret /\ hp = HpWmiInterface_init(AsIfAbsent(lastOp.pre))

\* ------------------------------------------------------------------------
\* Status records
\* ------------------------------------------------------------------------

\* C24: every SystemStatus that get_status returns has a fan_mode that is
\* absent or one of QUIET, BALANCED, PERFORMANCE, MAX, never OFF, and fan_mode
\* is MAX exactly when max_fan_enabled is true.
C24_StatusWellFormed ==
    status.valid
        => /\ status.fan_mode \in {None, "QUIET", "BALANCED", "PERFORMANCE", "MAX"}
           /\ status.fan_mode # "OFF"
           /\ (status.fan_mode = "MAX") <=> status.max_fan_enabled

\* The status right after a successful set_mode(OFF) on a machine without a
\* readable profile: no mode at all, not OFF.
C24_Witness ==
    /\ status.valid
    /\ status.after.op = "setMode" /\ status.after.arg = "OFF" /\ status.after.ret
    /\ status.fan_mode = None
    /\ ~status.max_fan_enabled

\* The fields of SystemStatus that come from the control files
StatusRecord(st) == <<st.fan_mode, st.max_fan_enabled, st.is_available>>

\* C22: get_status and get_diagnostics write nothing, and a call of either
\* that directly follows a call of the same one returns the same
\* availability flags, hwmon path, legal profile list, current mode and boost
\* name, whatever calls came before.
C22_ReadOnlyRepeatable ==
    [][/\ lastOp'.op \in {"getStatus", "getDiagnostics"}
             => fs' = fs /\ lastOp'.log = <<>>
       /\ (lastOp.op = "getStatus" /\ lastOp'.op = "getStatus")
             => StatusRecord(status') = StatusRecord(status)
       /\ (lastOp.op = "getDiagnostics" /\ lastOp'.op = "getDiagnostics")
             => out'.info = out.info]_vars

\* The second of two diagnostics calls, made with boost on after an outside
\* write.
C22_Witness ==
    /\ out.op = "diagnostics" /\ out.after = "getDiagnostics"
    /\ out.info.max_fan = "ON"
    /\ out.info.current_mode = "PERFORMANCE"
    /\ extWrites = 1

\* ------------------------------------------------------------------------
\* Concurrent instances
\* ------------------------------------------------------------------------

\* The tree a call leaves when it runs from start to end on its own
RunAlone(c, f) ==
    IF c.op = "toggleBoost" THEN toggle_max_fan(hp, f).fs
    ELSE IF c.op = "setBoost" THEN FanController_set_max_fan(hp, f, c.arg = "True").fs
    ELSE FanController_set_mode(hp, f, c.arg).fs

\* C23: when both instances have finished their calls, platform_profile and
\* pwm1_enable are what running the two calls one after the other, in one of
\* the two orders, leaves.
C23_Serializable ==
    (calls # NoCalls /\ \A i \in 1..2 : calls[i].pc = "done")
        => \E i \in 1..2 :
              LET serial == RunAlone(calls[3 - i], RunAlone(calls[i], lastOp.pre))
              IN  fs.profile = serial.profile /\ fs.pwm = serial.pwm

====
